---- MODULE Spec2Model ----
(***************************************************************************)
(* A model of .ci/remove-json-comments.py: the comment-tolerant JSON       *)
(* normalizer (remove_comments_from_json_string, clean_json_content) and   *)
(* its batch driver (process_json_file, main).                             *)
(*                                                                         *)
(* A text is a sequence of characters; a character is a one-character     *)
(* string, except the two named characters BOM (U+FEFF) and NUL (U+0000). *)
(* Python indexes from 0 and TLA+ sequences from 1: the code's             *)
(* `i + 1 < len(s)` is `i + 1 <= Len(s)` here.                             *)
(***************************************************************************)
EXTENDS Integers, Sequences, FiniteSets, TLC

VARIABLES
  \* remove_comments_from_json_string (SpecScan)
  pc,           \* position in the function
  json_str,     \* the local json_str: the argument, then each stage's result
  src_lines,    \* json_str.splitlines(), the list the for loop iterates
  ln,           \* index of the line the for loop is at
  i,            \* the local i of either scan
  new_line,     \* the local new_line
  lines,        \* the local lines (the stripped lines so far)
  in_string, escape_next, in_comment,
  cleaned,      \* the local cleaned
  arg,          \* the argument the function was called with (history)
  open_cleaned, \* cleaned as it was when in_comment was last set (history)
  \* clean_json_content followed by json.dump, applied twice (SpecNorm)
  n_pc, n_input, n_first, n_second,
  \* main and process_json_file (Spec)
  m_pc, files, orig_files, idx, content, json_data,
  total_files, processed_files, successful_files, rewritten

scan_vars == <<pc, json_str, src_lines, ln, i, new_line, lines, in_string,
               escape_next, in_comment, cleaned, arg, open_cleaned>>
norm_vars == <<n_pc, n_input, n_first, n_second>>
main_vars == <<m_pc, files, orig_files, idx, content, json_data,
               total_files, processed_files, successful_files, rewritten>>
vars == <<scan_vars, norm_vars, main_vars>>

-----------------------------------------------------------------------------
(* Characters and texts *)

BOM == "BOM"
NUL == "NUL"
NL == "\n"
QUOTE == "\""
BACKSLASH == "\\"

\* every text of at most n characters of an alphabet
Texts(alphabet, n) == UNION {[1..k -> alphabet] : k \in 0..n}

RECURSIVE Concat(_)
\* ''.join(parts)
Concat(parts) ==
  IF parts = <<>> THEN <<>> ELSE Head(parts) \o Concat(Tail(parts))

RECURSIVE JoinLines(_)
\* '\n'.join(ls)
JoinLines(ls) ==
  IF ls = <<>> THEN <<>>
  ELSE IF Len(ls) = 1 THEN ls[1]
  ELSE ls[1] \o <<NL>> \o JoinLines(Tail(ls))

\* the line boundaries str.splitlines() knows among the characters modelled
IsLineBreak(c) == c \in {"\n", "\r", "\f"}

RECURSIVE SplitFrom(_, _, _)
SplitFrom(s, p, cur) ==
  IF p > Len(s) THEN (IF cur = <<>> THEN <<>> ELSE <<cur>>)
  ELSE IF s[p] = "\r" /\ p + 1 <= Len(s) /\ s[p + 1] = "\n"
       THEN <<cur>> \o SplitFrom(s, p + 2, <<>>)
  ELSE IF IsLineBreak(s[p]) THEN <<cur>> \o SplitFrom(s, p + 1, <<>>)
  ELSE SplitFrom(s, p + 1, Append(cur, s[p]))

\* s.splitlines(): no empty last line after a final line break
SplitLines(s) == SplitFrom(s, 1, <<>>)

\* what \s of re and str.strip() take for whitespace, among the characters modelled
IsSpace(c) == c \in {" ", "\t", "\n", "\r", "\f"}

-----------------------------------------------------------------------------
(* remove_comments_from_json_string: the line-comment scan *)

\* The branch of the while body (lines 19-31) taken on line[s.i]
LineBranch(line, s) ==
  LET char == line[s.i] IN
  IF s.escape_next THEN "escaped"
  ELSE IF char = BACKSLASH THEN "backslash"
  ELSE IF char = QUOTE /\ ~s.escape_next THEN "quote"
  ELSE IF char = "/" /\ s.i + 1 <= Len(line) /\ line[s.i + 1] = "/" /\ ~s.in_string
       THEN "break"
  ELSE "copy"

\* One iteration of the while loop (lines 17-32) that does not break:
\* s = [i, new_line, in_string, escape_next]
LineScanChar(line, s) ==
  LET char == line[s.i]
      b == LineBranch(line, s)
  IN [i |-> s.i + 1,
      new_line |-> Append(s.new_line, char),
      in_string |-> IF b = "quote" THEN ~s.in_string ELSE s.in_string,
      escape_next |-> IF b = "escaped" THEN FALSE
                      ELSE IF b = "backslash" THEN TRUE
                      ELSE s.escape_next]

RECURSIVE LineScanLine(_, _)
\* The while loop (lines 16-32) on one line, from state s to its end or its break
LineScanLine(line, s) ==
  IF s.i > Len(line) THEN s
  ELSE IF LineBranch(line, s) = "break" THEN s
  ELSE LineScanLine(line, LineScanChar(line, s))

RECURSIVE LineScanLines(_, _, _)
\* The for loop (lines 13-34): in_string and escape_next are set once, before it
LineScanLines(ls, ins, esc) ==
  IF ls = <<>> THEN <<>>
  ELSE LET s == LineScanLine(Head(ls), [i |-> 1, new_line |-> <<>>,
                                        in_string |-> ins, escape_next |-> esc])
       IN <<s.new_line>> \o LineScanLines(Tail(ls), s.in_string, s.escape_next)

\* Lines 9-36
StripLineComments(s) == JoinLines(LineScanLines(SplitLines(s), FALSE, FALSE))

-----------------------------------------------------------------------------
(* remove_comments_from_json_string: the block-comment scan *)

\* The branch of the while body (lines 48-67) taken on text[s.i]
BlockBranch(text, s) ==
  LET char == text[s.i] IN
  IF s.escape_next THEN "escaped"
  ELSE IF char = BACKSLASH THEN "backslash"
  ELSE IF char = QUOTE /\ ~s.escape_next THEN "quote"
  ELSE IF char = "/" /\ s.i + 1 <= Len(text) /\ text[s.i + 1] = "*" /\ ~s.in_string
       THEN "open"
  ELSE IF char = "*" /\ s.i + 1 <= Len(text) /\ text[s.i + 1] = "/" /\ s.in_comment
       THEN "close"
  ELSE "other"

\* BlockKeep without the `if not in_comment` guards of lines 49, 53, 57 and 66
BlockKeepUnguarded(s, char) == Append(s.cleaned, char)

\* `cleaned` after the branch taken on a character outside the two markers
BlockKeep(s, char) ==
  IF s.in_comment THEN s.cleaned ELSE Append(s.cleaned, char)

\* One iteration of the while loop (lines 45-68):
\* s = [i, cleaned, in_comment, in_string, escape_next]
BlockScanChar(text, s) ==
  LET char == text[s.i]
      b == BlockBranch(text, s)
  IN [i |-> IF b \in {"open", "close"} THEN s.i + 2 ELSE s.i + 1,
      cleaned |-> IF b \in {"open", "close"} THEN s.cleaned ELSE BlockKeep(s, char),
      in_comment |-> IF b = "open" THEN TRUE
                     ELSE IF b = "close" THEN FALSE
                     ELSE s.in_comment,
      in_string |-> IF b = "quote" /\ ~s.in_comment THEN ~s.in_string ELSE s.in_string,
      escape_next |-> IF b = "escaped" THEN FALSE
                      ELSE IF b = "backslash" THEN TRUE
                      ELSE s.escape_next]

RECURSIVE BlockScan(_, _)
BlockScan(text, s) ==
  IF s.i > Len(text) THEN s ELSE BlockScan(text, BlockScanChar(text, s))

\* Lines 39-70
StripBlockComments(text) ==
  BlockScan(text, [i |-> 1, cleaned |-> <<>>, in_comment |-> FALSE,
                   in_string |-> FALSE, escape_next |-> FALSE]).cleaned

-----------------------------------------------------------------------------
(* remove_comments_from_json_string: trailing commas and empty lines *)

RECURSIVE SkipSpace(_, _)
\* the position after the longest run of whitespace that starts at p
SkipSpace(s, p) ==
  IF p <= Len(s) /\ IsSpace(s[p]) THEN SkipSpace(s, p + 1) ELSE p

\* the pattern ,(\s*[}\]]) matches at p
CommaMatchAt(s, p) ==
  /\ p <= Len(s)
  /\ s[p] = ","
  /\ LET q == SkipSpace(s, p + 1) IN q <= Len(s) /\ s[q] \in {"}", "]"}

RECURSIVE SubFrom(_, _)
\* re.sub scans left to right; after a match it resumes behind the match
SubFrom(s, p) ==
  IF p > Len(s) THEN <<>>
  ELSE IF CommaMatchAt(s, p)
       THEN LET q == SkipSpace(s, p + 1)
            IN SubSeq(s, p + 1, q) \o SubFrom(s, q + 1)
  ELSE <<s[p]>> \o SubFrom(s, p + 1)

\* Line 73: re.sub(r',(\s*[}\]])', r'\1', json_str)
RemoveTrailingCommas(s) == SubFrom(s, 1)

\* line.strip() is not empty
HasContent(line) == \E k \in 1..Len(line) : ~IsSpace(line[k])

\* Line 76
RemoveEmptyLines(s) ==
  JoinLines(SelectSeq(SplitLines(s), HasContent))

\* remove_comments_from_json_string as a whole (lines 6-78)
remove_comments_from_json_string(s) ==
  RemoveEmptyLines(RemoveTrailingCommas(StripBlockComments(StripLineComments(s))))

-----------------------------------------------------------------------------
(* json.loads, over the characters modelled.  A JSON value is a record:      *)
(*   [t |-> "str", v |-> its characters]   [t |-> "num", v |-> its digits]   *)
(*   [t |-> "arr", v |-> its items]        [t |-> "obj", v |-> its members]  *)
(* a member being <<key characters, value>>.  The literals true, false and   *)
(* null, a sign, a fraction, an exponent, \b and \uXXXX need characters    *)
(* that no text of the model holds in those places.                          *)

JsonFail == [ok |-> FALSE]

\* json.decoder.WHITESPACE
IsJsonSpace(c) == c \in {" ", "\t", "\n", "\r"}

RECURSIVE SkipJsonSpace(_, _)
SkipJsonSpace(s, p) ==
  IF p <= Len(s) /\ IsJsonSpace(s[p]) THEN SkipJsonSpace(s, p + 1) ELSE p

\* the characters below U+0020, which a strict decoder refuses inside a string
IsControl(c) == c \in {NUL, "\t", "\n", "\r", "\f"}

Digits == {"0", "1", "2", "3", "4", "5", "6", "7", "8", "9"}

\* json.decoder.BACKSLASH: the character an escape letter stands for
Unescape(c) ==
  CASE c = QUOTE -> QUOTE
    [] c = BACKSLASH -> BACKSLASH
    [] c = "/" -> "/"
    [] c = "n" -> "\n"
    [] c = "r" -> "\r"
    [] c = "t" -> "\t"
    [] c = "f" -> "\f"
    [] OTHER -> "none"

RECURSIVE ScanString(_, _, _)
\* json.decoder.scanstring from behind the opening quote
ScanString(s, p, acc) ==
  IF p > Len(s) THEN JsonFail
  ELSE IF s[p] = QUOTE THEN [ok |-> TRUE, v |-> [t |-> "str", v |-> acc], p |-> p + 1]
  ELSE IF s[p] = BACKSLASH
       THEN IF p + 1 <= Len(s) /\ Unescape(s[p + 1]) # "none"
            THEN ScanString(s, p + 2, Append(acc, Unescape(s[p + 1])))
            ELSE JsonFail
  ELSE IF IsControl(s[p]) THEN JsonFail
  ELSE ScanString(s, p + 1, Append(acc, s[p]))

RECURSIVE ScanDigits(_, _)
\* the position behind the digits that start at p
ScanDigits(s, p) ==
  IF p <= Len(s) /\ s[p] \in Digits THEN ScanDigits(s, p + 1) ELSE p

\* json.scanner.NUMBER_RE at p, a digit: 0, or a digit other than 0 and more digits
ScanNumber(s, p) ==
  LET q == IF s[p] = "0" THEN p + 1 ELSE ScanDigits(s, p)
  IN [ok |-> TRUE, v |-> [t |-> "num", v |-> SubSeq(s, p, q - 1)], p |-> q]

RECURSIVE SetMember(_, _, _)
\* d[key] = value on a dict kept as its members in insertion order
SetMember(members, key, value) ==
  IF members = <<>> THEN <<<<key, value>>>>
  ELSE IF Head(members)[1] = key THEN <<<<key, value>>>> \o Tail(members)
  ELSE <<Head(members)>> \o SetMember(Tail(members), key, value)

RECURSIVE ScanValue(_, _)
RECURSIVE ScanItems(_, _, _)
RECURSIVE ScanMembers(_, _, _)

\* json.decoder.JSONArray from where an item must start
ScanItems(s, p, acc) ==
  LET item == ScanValue(s, p) IN
  IF ~item.ok THEN JsonFail
  ELSE LET q == SkipJsonSpace(s, item.p)
           items == Append(acc, item.v)
       IN IF q > Len(s) THEN JsonFail
          ELSE IF s[q] = "]" THEN [ok |-> TRUE, v |-> [t |-> "arr", v |-> items], p |-> q + 1]
          ELSE IF s[q] = "," THEN ScanItems(s, SkipJsonSpace(s, q + 1), items)
          ELSE JsonFail

\* json.decoder.JSONObject from where a key must start
ScanMembers(s, p, acc) ==
  IF p > Len(s) \/ s[p] # QUOTE THEN JsonFail
  ELSE LET key == ScanString(s, p + 1, <<>>) IN
       IF ~key.ok THEN JsonFail
       ELSE LET c == SkipJsonSpace(s, key.p) IN
            IF c > Len(s) \/ s[c] # ":" THEN JsonFail
            ELSE LET val == ScanValue(s, SkipJsonSpace(s, c + 1)) IN
                 IF ~val.ok THEN JsonFail
                 ELSE LET q == SkipJsonSpace(s, val.p)
                          members == SetMember(acc, key.v.v, val.v)
                      IN IF q > Len(s) THEN JsonFail
                         ELSE IF s[q] = "}"
                              THEN [ok |-> TRUE, v |-> [t |-> "obj", v |-> members],
                                    p |-> q + 1]
                         ELSE IF s[q] = ","
                              THEN ScanMembers(s, SkipJsonSpace(s, q + 1), members)
                         ELSE JsonFail

\* json.scanner's scan_once at p
ScanValue(s, p) ==
  IF p > Len(s) THEN JsonFail
  ELSE IF s[p] = QUOTE THEN ScanString(s, p + 1, <<>>)
  ELSE IF s[p] = "["
       THEN LET q == SkipJsonSpace(s, p + 1) IN
            IF q <= Len(s) /\ s[q] = "]"
            THEN [ok |-> TRUE, v |-> [t |-> "arr", v |-> <<>>], p |-> q + 1]
            ELSE ScanItems(s, q, <<>>)
  ELSE IF s[p] = "{"
       THEN LET q == SkipJsonSpace(s, p + 1) IN
            IF q <= Len(s) /\ s[q] = "}"
            THEN [ok |-> TRUE, v |-> [t |-> "obj", v |-> <<>>], p |-> q + 1]
            ELSE ScanMembers(s, q, <<>>)
  ELSE IF s[p] \in Digits THEN ScanNumber(s, p)
  ELSE JsonFail

\* json.loads(s): [ok |-> TRUE, v |-> the value], or [ok |-> FALSE] for a
\* JSONDecodeError; trailing characters other than whitespace are "Extra data"
json_loads(s) ==
  LET r == ScanValue(s, SkipJsonSpace(s, 1)) IN
  IF ~r.ok THEN JsonFail
  ELSE IF SkipJsonSpace(s, r.p) <= Len(s) THEN JsonFail
  ELSE [ok |-> TRUE, v |-> r.v]

-----------------------------------------------------------------------------
(* json.dump(value, f, indent=2, ensure_ascii=False) *)

\* json.encoder.ESCAPE_DCT: how a character of a string is written
EscapeChar(c) ==
  CASE c = QUOTE -> <<BACKSLASH, QUOTE>>
    [] c = BACKSLASH -> <<BACKSLASH, BACKSLASH>>
    [] c = "\n" -> <<BACKSLASH, "n">>
    [] c = "\r" -> <<BACKSLASH, "r">>
    [] c = "\t" -> <<BACKSLASH, "t">>
    [] c = "\f" -> <<BACKSLASH, "f">>
    [] c = NUL -> <<BACKSLASH, "u", "0", "0", "0", "0">>
    [] OTHER -> <<c>>

RECURSIVE EscapeAll(_)
EscapeAll(chars) ==
  IF chars = <<>> THEN <<>> ELSE EscapeChar(Head(chars)) \o EscapeAll(Tail(chars))

\* a string as json writes it
DumpString(chars) == <<QUOTE>> \o EscapeAll(chars) \o <<QUOTE>>

RECURSIVE Indent(_)
\* the line break and the two spaces a level that open a line at that level
Indent(level) ==
  IF level = 0 THEN <<NL>> ELSE Indent(level - 1) \o <<" ", " ">>

RECURSIVE DumpValue(_, _)
RECURSIVE DumpItems(_, _)
RECURSIVE DumpMembers(_, _)

\* the items of a list, each on its line, with "," between them
DumpItems(items, level) ==
  IF items = <<>> THEN <<>>
  ELSE Indent(level) \o DumpValue(Head(items), level)
       \o (IF Len(items) > 1 THEN <<",">> ELSE <<>>)
       \o DumpItems(Tail(items), level)

\* the members of a dict, each on its line as key, ": " and value
DumpMembers(members, level) ==
  IF members = <<>> THEN <<>>
  ELSE Indent(level) \o DumpString(Head(members)[1]) \o <<":", " ">>
       \o DumpValue(Head(members)[2], level)
       \o (IF Len(members) > 1 THEN <<",">> ELSE <<>>)
       \o DumpMembers(Tail(members), level)

\* json.encoder's _iterencode at an indentation level
DumpValue(value, level) ==
  CASE value.t = "str" -> DumpString(value.v)
    [] value.t = "num" -> value.v
    [] value.t = "arr" ->
         IF value.v = <<>> THEN <<"[", "]">>
         ELSE <<"[">> \o DumpItems(value.v, level + 1) \o Indent(level) \o <<"]">>
    [] value.t = "obj" ->
         IF value.v = <<>> THEN <<"{", "}">>
         ELSE <<"{">> \o DumpMembers(value.v, level + 1) \o Indent(level) \o <<"}">>

\* Line 117
json_dump(value) == DumpValue(value, 0)

-----------------------------------------------------------------------------
(* clean_json_content *)

\* Lines 83-84
StripBom(s) == IF s # <<>> /\ s[1] = BOM THEN Tail(s) ELSE s

\* Lines 87-88: below U+0020 only line feed, carriage return and tab are kept
IsKept(c) == c \notin {NUL, "\f"}

\* Lines 83-91: the text handed to json.loads
CleanText(s) == remove_comments_from_json_string(SelectSeq(StripBom(s), IsKept))

\* Lines 80-102: [ok |-> TRUE, v |-> the value], or [ok |-> FALSE] when the
\* JSONDecodeError is raised again
clean_json_content(s) == json_loads(CleanText(s))

-----------------------------------------------------------------------------
(* remove_comments_from_json_string, one loop iteration or statement at a time *)

MaxLen == 4
MaxCommentLen == 6

\* the characters the scans and the substitution tell apart, and one other
ScanAlphabet == {QUOTE, BACKSLASH, "/", "*", NL, ",", "]", "}"}
\* comment markers, the escape character and one other
CommentAlphabet == {"/", "*", BACKSLASH, "1"}

ScanTexts == Texts(ScanAlphabet, MaxLen) \cup Texts(CommentAlphabet, MaxCommentLen)

\* the variables of the other specifications, at rest
NormIdle ==
  /\ n_pc = "off"
  /\ n_input = <<>>
  /\ n_first = [ok |-> FALSE]
  /\ n_second = [ok |-> FALSE]

MainIdle ==
  /\ m_pc = "off"
  /\ files = <<>>
  /\ orig_files = <<>>
  /\ idx = 0
  /\ content = <<>>
  /\ json_data = [t |-> "none"]
  /\ total_files = 0
  /\ processed_files = 0
  /\ successful_files = 0
  /\ rewritten = 0

\* the line the for loop is at
CurLine == src_lines[ln]
LineState == [i |-> i, new_line |-> new_line,
              in_string |-> in_string, escape_next |-> escape_next]
BlockState == [i |-> i, cleaned |-> cleaned, in_comment |-> in_comment,
               in_string |-> in_string, escape_next |-> escape_next]

\* Lines 9-15, the function called with any text
ScanInit ==
  /\ arg \in ScanTexts
  /\ json_str = arg
  /\ src_lines = SplitLines(arg)
  /\ lines = <<>>
  /\ in_string = FALSE
  /\ escape_next = FALSE
  /\ ln = 1
  /\ new_line = <<>>
  /\ i = 1
  /\ in_comment = FALSE
  /\ cleaned = <<>>
  /\ open_cleaned = <<>>
  /\ pc = "line"
  /\ NormIdle
  /\ MainIdle

\* Lines 16-32, an iteration that does not break
LineChar ==
  /\ UNCHANGED <<norm_vars, main_vars>>
  /\ pc = "line"
  /\ ln <= Len(src_lines)
  /\ i <= Len(CurLine)
  /\ LineBranch(CurLine, LineState) # "break"
  /\ LET s == LineScanChar(CurLine, LineState)
     IN /\ i' = s.i
        /\ new_line' = s.new_line
        /\ in_string' = s.in_string
        /\ escape_next' = s.escape_next
  /\ UNCHANGED <<pc, json_str, src_lines, ln, lines, in_comment, cleaned, arg, open_cleaned>>

\* Lines 34 and 13-15: the line is stored and the for loop moves on
NextLine ==
  /\ lines' = Append(lines, new_line)
  /\ ln' = ln + 1
  /\ new_line' = <<>>
  /\ i' = 1
  /\ UNCHANGED <<pc, json_str, src_lines, in_string, escape_next, in_comment, cleaned,
                 arg, open_cleaned>>

\* Lines 28-29, then 34: an unquoted // ends the scan of the line
LineBreak ==
  /\ UNCHANGED <<norm_vars, main_vars>>
  /\ pc = "line"
  /\ ln <= Len(src_lines)
  /\ i <= Len(CurLine)
  /\ LineBranch(CurLine, LineState) = "break"
  /\ NextLine

\* Line 16 false, then 34: the line is exhausted
LineEnd ==
  /\ UNCHANGED <<norm_vars, main_vars>>
  /\ pc = "line"
  /\ ln <= Len(src_lines)
  /\ i > Len(CurLine)
  /\ NextLine

\* Lines 36-43: the lines are joined and the block scan is set up
LineJoin ==
  /\ UNCHANGED <<norm_vars, main_vars>>
  /\ pc = "line"
  /\ ln > Len(src_lines)
  /\ json_str' = JoinLines(lines)
  /\ cleaned' = <<>>
  /\ in_comment' = FALSE
  /\ in_string' = FALSE
  /\ escape_next' = FALSE
  /\ i' = 1
  /\ pc' = "block"
  /\ UNCHANGED <<src_lines, ln, new_line, lines, arg, open_cleaned>>

\* Lines 45-68, one iteration
BlockChar ==
  /\ UNCHANGED <<norm_vars, main_vars>>
  /\ pc = "block"
  /\ i <= Len(json_str)
  /\ LET s == BlockScanChar(json_str, BlockState)
     IN /\ i' = s.i
        /\ cleaned' = s.cleaned
        /\ in_comment' = s.in_comment
        /\ in_string' = s.in_string
        /\ escape_next' = s.escape_next
  /\ open_cleaned' = IF BlockBranch(json_str, BlockState) = "open"
                     THEN cleaned ELSE open_cleaned
  /\ UNCHANGED <<pc, json_str, src_lines, ln, new_line, lines, arg>>

\* Line 45 false, then 70
BlockJoin ==
  /\ UNCHANGED <<norm_vars, main_vars>>
  /\ pc = "block"
  /\ i > Len(json_str)
  /\ json_str' = cleaned
  /\ pc' = "sub"
  /\ UNCHANGED <<src_lines, ln, i, new_line, lines, in_string, escape_next, in_comment,
                 cleaned, arg, open_cleaned>>

\* Line 73
TrailingCommas ==
  /\ UNCHANGED <<norm_vars, main_vars>>
  /\ pc = "sub"
  /\ json_str' = RemoveTrailingCommas(json_str)
  /\ pc' = "compact"
  /\ UNCHANGED <<src_lines, ln, i, new_line, lines, in_string, escape_next, in_comment,
                 cleaned, arg, open_cleaned>>

\* Lines 76-78
EmptyLines ==
  /\ UNCHANGED <<norm_vars, main_vars>>
  /\ pc = "compact"
  /\ json_str' = RemoveEmptyLines(json_str)
  /\ pc' = "done"
  /\ UNCHANGED <<src_lines, ln, i, new_line, lines, in_string, escape_next, in_comment,
                 cleaned, arg, open_cleaned>>

ScanNext ==
  \/ LineChar
  \/ LineBreak
  \/ LineEnd
  \/ LineJoin
  \/ BlockChar
  \/ BlockJoin
  \/ TrailingCommas
  \/ EmptyLines

SpecScan == ScanInit /\ [][ScanNext]_vars

-----------------------------------------------------------------------------
(* The texts of section 8's examples *)

\* the characters of a TLA+ string cannot be taken apart, so each is spelled out
Example1 ==
  <<"{", QUOTE, "a", QUOTE, ":", " ", "1", ",", " ", "/", "/", " ", "c", "o", "m", "m",
    "e", "n", "t", NL, QUOTE, "b", QUOTE, ":", " ", "2", ",", "}">>
Example2 ==
  <<"{", "/", "*", " ", "b", "l", "o", "c", "k", " ", NL, " ", "c", "o", "m", "m", "e",
    "n", "t", " ", "*", "/", " ", QUOTE, "x", QUOTE, ":", " ", "[", "1", ",", "2", ",",
    "3", ",", "]", "}">>
Example3 ==
  <<"{", QUOTE, "u", "r", "l", QUOTE, ":", " ", QUOTE, "h", "t", "t", "p", ":", "/", "/",
    "e", "x", "a", "m", "p", "l", "e", ".", "c", "o", "m", QUOTE, "}">>
Example4 == <<"{", QUOTE, "a", QUOTE, ":", " ", "}">>
Examples == {Example1, Example2, Example3, Example4}

-----------------------------------------------------------------------------
(* Normalizing a text and normalizing the result again (SpecNorm) *)

MaxNormLen == 5
MaxPieces == 5

NormAlphabet == {QUOTE, ",", "]", "[", "1", "/", NL, "{", "}"}

\* comments, strings that hold a comment marker, and what stands between them
Pieces ==
  {<<"/", "*", "/", "/", "*", "/">>, <<"/", "*", QUOTE, "*", "/">>, <<"/", "*", "*", "/">>,
   <<"/", "/", "1">>,
   <<QUOTE, "/", "/", QUOTE>>, <<QUOTE, "/", "*", QUOTE>>, <<QUOTE, "*", "/", QUOTE>>,
   <<NL>>, <<"1">>, <<",">>, <<"[">>, <<"]">>}

\* two texts that hold a byte-order mark and characters below U+0020
ControlSamples == {<<BOM, "[", "1", "]">>, <<"[", NUL, "1", ",", "\f", "]", NUL>>}

\* Lines 113-117: the text process_json_file writes for the text it read, or
\* [ok |-> FALSE] when clean_json_content raises
Normalize(x) ==
  LET r == clean_json_content(x)
  IN IF r.ok THEN [ok |-> TRUE, v |-> r.v, out |-> json_dump(r.v)] ELSE JsonFail

ScanIdle ==
  /\ pc = "off"
  /\ json_str = <<>>
  /\ src_lines = <<>>
  /\ ln = 0
  /\ i = 0
  /\ new_line = <<>>
  /\ lines = <<>>
  /\ in_string = FALSE
  /\ escape_next = FALSE
  /\ in_comment = FALSE
  /\ cleaned = <<>>
  /\ arg = <<>>
  /\ open_cleaned = <<>>

\* the texts normalized: every short text over NormAlphabet, every short
\* sequence of Pieces, the examples and the control samples
NormInit ==
  /\ \/ n_input \in Texts(NormAlphabet, MaxNormLen)
     \/ \E d \in Texts(Pieces, MaxPieces) : n_input = Concat(d)
     \/ n_input \in Examples \cup ControlSamples
  /\ n_pc = "first"
  /\ n_first = JsonFail
  /\ n_second = JsonFail
  /\ ScanIdle
  /\ MainIdle

NormalizeFirst ==
  /\ UNCHANGED <<scan_vars, main_vars>>
  /\ n_pc = "first"
  /\ n_first' = Normalize(n_input)
  /\ n_pc' = IF n_first'.ok THEN "second" ELSE "rejected"
  /\ UNCHANGED <<n_input, n_second>>

NormalizeSecond ==
  /\ UNCHANGED <<scan_vars, main_vars>>
  /\ n_pc = "second"
  /\ n_second' = Normalize(n_first.out)
  /\ n_pc' = "done"
  /\ UNCHANGED <<n_input, n_first>>

NormNext ==
  \/ NormalizeFirst
  \/ NormalizeSecond

SpecNorm == NormInit /\ [][NormNext]_vars

-----------------------------------------------------------------------------
(* main and process_json_file (Spec) *)

MaxFiles == 2
MaxFileLen == 1

FileAlphabet == {"[", "]"}
FileTexts == Texts(FileAlphabet, MaxFileLen) \cup Examples

\* the files rglob finds in the two directories, in the order it yields them
FileLists == UNION {[1..n -> FileTexts] : n \in 0..MaxFiles}

\* Lines 136-140
Init ==
  /\ files \in FileLists
  /\ orig_files = files
  /\ idx = 0
  /\ total_files = 0
  /\ processed_files = 0
  /\ successful_files = 0
  /\ rewritten = 0
  /\ content = <<>>
  /\ json_data = [t |-> "none"]
  /\ m_pc = "loop"
  /\ ScanIdle
  /\ NormIdle

\* Lines 148-151: the next file is counted and handed to process_json_file
NextFile ==
  /\ UNCHANGED <<scan_vars, norm_vars>>
  /\ m_pc = "loop"
  /\ idx < Len(files)
  /\ idx' = idx + 1
  /\ total_files' = total_files + 1
  /\ m_pc' = "read"
  /\ UNCHANGED <<files, orig_files, content, json_data, processed_files,
                 successful_files, rewritten>>

\* Lines 108-109: utf-8-sig drops one leading byte-order mark
ReadFile ==
  /\ UNCHANGED <<scan_vars, norm_vars>>
  /\ m_pc = "read"
  /\ content' = StripBom(files[idx])
  /\ m_pc' = "clean"
  /\ UNCHANGED <<files, orig_files, idx, json_data, total_files, processed_files,
                 successful_files, rewritten>>

\* Lines 108-109 raise (the file cannot be opened or decoded), caught at 123-124
ReadFails ==
  /\ UNCHANGED <<scan_vars, norm_vars>>
  /\ m_pc = "read"
  /\ m_pc' = "return"
  /\ UNCHANGED <<files, orig_files, idx, content, json_data, total_files,
                 processed_files, successful_files, rewritten>>

\* Line 113 returns the parsed value
CleanAccepts ==
  /\ UNCHANGED <<scan_vars, norm_vars>>
  /\ m_pc = "clean"
  /\ clean_json_content(content).ok
  /\ json_data' = clean_json_content(content).v
  /\ m_pc' = "open"
  /\ UNCHANGED <<files, orig_files, idx, content, total_files, processed_files,
                 successful_files, rewritten>>

\* CleanRejects with the file already opened for writing when line 113 raises
CleanRejectsOpened ==
  /\ UNCHANGED <<scan_vars, norm_vars>>
  /\ m_pc = "clean"
  /\ ~clean_json_content(content).ok
  /\ files' = [files EXCEPT ![idx] = <<>>]
  /\ m_pc' = "return"
  /\ UNCHANGED <<orig_files, idx, content, json_data, total_files, processed_files,
                 successful_files, rewritten>>

\* Line 113 raises JSONDecodeError, caught at 120-121
CleanRejects ==
  /\ UNCHANGED <<scan_vars, norm_vars>>
  /\ m_pc = "clean"
  /\ ~clean_json_content(content).ok
  /\ m_pc' = "return"
  /\ UNCHANGED <<files, orig_files, idx, content, json_data, total_files,
                 processed_files, successful_files, rewritten>>

\* Line 116: opening for writing empties the file
OpenForWrite ==
  /\ UNCHANGED <<scan_vars, norm_vars>>
  /\ m_pc = "open"
  /\ files' = [files EXCEPT ![idx] = <<>>]
  /\ m_pc' = "dump"
  /\ UNCHANGED <<orig_files, idx, content, json_data, total_files, processed_files,
                 successful_files, rewritten>>

\* Line 116 raises (the file cannot be opened for writing), caught at 123-124
OpenFails ==
  /\ UNCHANGED <<scan_vars, norm_vars>>
  /\ m_pc = "open"
  /\ m_pc' = "return"
  /\ UNCHANGED <<files, orig_files, idx, content, json_data, total_files,
                 processed_files, successful_files, rewritten>>

\* Lines 117-118
DumpJson ==
  /\ UNCHANGED <<scan_vars, norm_vars>>
  /\ m_pc = "dump"
  /\ files' = [files EXCEPT ![idx] = json_dump(json_data)]
  /\ rewritten' = rewritten + 1
  /\ m_pc' = "return"
  /\ UNCHANGED <<orig_files, idx, content, json_data, total_files, processed_files,
                 successful_files>>

\* Lines 152-155: process_json_file has returned, as it does on every path
Return ==
  /\ UNCHANGED <<scan_vars, norm_vars>>
  /\ m_pc = "return"
  /\ successful_files' = successful_files + 1
  /\ processed_files' = processed_files + 1
  /\ m_pc' = "loop"
  /\ UNCHANGED <<files, orig_files, idx, content, json_data, total_files, rewritten>>

\* Lines 157-158: the loops are over and the counts are printed
Report ==
  /\ UNCHANGED <<scan_vars, norm_vars>>
  /\ m_pc = "loop"
  /\ idx = Len(files)
  /\ m_pc' = "done"
  /\ UNCHANGED <<files, orig_files, idx, content, json_data, total_files,
                 processed_files, successful_files, rewritten>>

Next ==
  \/ NextFile
  \/ ReadFile
  \/ ReadFails
  \/ CleanAccepts
  \/ CleanRejects
  \/ OpenForWrite
  \/ OpenFails
  \/ DumpJson
  \/ Return
  \/ Report

Spec == Init /\ [][Next]_vars

-----------------------------------------------------------------------------
(* Properties of remove_comments_from_json_string (SpecScan) *)

\* a character is about to be scanned by the line scan, by the block scan
AtLineChar == pc = "line" /\ ln <= Len(src_lines) /\ i <= Len(CurLine)
AtBlockChar == pc = "block" /\ i <= Len(json_str)
\* the block scan has read all its text, whose result is still in `cleaned`
BlockScanned == pc = "block" /\ i > Len(json_str)

RECURSIVE BackslashRun(_, _)
\* how many consecutive backslashes end at position p of s
BackslashRun(s, p) ==
  IF p >= 1 /\ s[p] = BACKSLASH THEN 1 + BackslashRun(s, p - 1) ELSE 0

\* the character at p is immediately preceded by an unescaped backslash
EscapedAt(s, p) == BackslashRun(s, p - 1) % 2 = 1

\* what the claim asks of in_string, `before` and `after` the character at p
QuoteRule(s, p, before, after) ==
  /\ (after # before) => (s[p] = QUOTE /\ ~EscapedAt(s, p))
  /\ (before /\ s[p] = QUOTE /\ EscapedAt(s, p)) => (after = before)
  /\ (before /\ s[p] = QUOTE /\ ~EscapedAt(s, p)) => (after # before)

RECURSIVE CloseAfter(_, _)
\* the position behind the first */ that starts at p or later; behind the text if none
CloseAfter(s, p) ==
  IF p > Len(s) THEN Len(s) + 1
  ELSE IF s[p] = "*" /\ p + 1 <= Len(s) /\ s[p + 1] = "/" THEN p + 2
  ELSE CloseAfter(s, p + 1)

RECURSIVE LineEndFrom(_, _)
\* the position of the first line break at p or later; behind the text if none
LineEndFrom(s, p) ==
  IF p > Len(s) \/ s[p] = NL THEN p ELSE LineEndFrom(s, p + 1)

RECURSIVE SinglePass(_, _, _, _, _, _)
\* The text s from p on with its comments removed by one left-to-right pass.
\* Quotes and escapes are tracked outside comments only; line: whether // opens
\* a comment too; carry: whether a pending escape skips a line break (as the
\* line scan has it) or takes it for the escaped character (as the block scan).
SinglePass(s, p, ins, esc, line, carry) ==
  IF p > Len(s) THEN <<>>
  ELSE IF esc
       THEN <<s[p]>> \o SinglePass(s, p + 1, ins, carry /\ s[p] = NL, line, carry)
  ELSE IF s[p] = BACKSLASH
       THEN <<s[p]>> \o SinglePass(s, p + 1, ins, TRUE, line, carry)
  ELSE IF s[p] = QUOTE
       THEN <<s[p]>> \o SinglePass(s, p + 1, ~ins, FALSE, line, carry)
  ELSE IF ~ins /\ s[p] = "/" /\ p + 1 <= Len(s) /\ s[p + 1] = "*"
       THEN SinglePass(s, CloseAfter(s, p + 2), FALSE, FALSE, line, carry)
  ELSE IF line /\ ~ins /\ s[p] = "/" /\ p + 1 <= Len(s) /\ s[p + 1] = "/"
       THEN SinglePass(s, LineEndFrom(s, p), FALSE, FALSE, line, carry)
  ELSE <<s[p]>> \o SinglePass(s, p + 1, ins, FALSE, line, carry)

\* C3: the block-comment scan returns its input without the spans from each /*
\* outside strings and comments to the next */ behind it (to the end of the
\* text if there is none); nothing inside a comment moves the comment's end.
C3_BlockStripper ==
  BlockScanned => cleaned = SinglePass(json_str, 1, FALSE, FALSE, FALSE, FALSE)

\* C4: after the substitution no comma is left that is followed only by
\* whitespace and then } or ].
C4_NoTrailingCommaLeft ==
  pc = "compact" => \A p \in 1..Len(json_str) : ~CommaMatchAt(json_str, p)

\* C6: in both scans in_string changes exactly on a double quote that no
\* unescaped backslash precedes: an escaped quote inside a string leaves it
\* open, an unescaped one closes it.
C6_EscapeCorrectness ==
  /\ (AtLineChar /\ LineBranch(CurLine, LineState) # "break")
       => QuoteRule(CurLine, i, in_string, LineScanChar(CurLine, LineState).in_string)
  /\ AtBlockChar
       => QuoteRule(json_str, i, in_string, BlockScanChar(json_str, BlockState).in_string)

\* C7: when the block scan ends inside a comment, its output is what it had
\* produced when that comment opened.
C7_UnterminatedComment ==
  (BlockScanned /\ in_comment) => cleaned = open_cleaned

\* C7's case: text was emitted before the opener and more text follows it
C7_Witness ==
  /\ BlockScanned
  /\ in_comment
  /\ open_cleaned # <<>>
  /\ Len(json_str) > Len(open_cleaned) + 2

\* the argument with its line ends as the line scan leaves them
ArgLines == JoinLines(SplitLines(arg))

\* C8: the line scan followed by the block scan gives what a single pass over
\* the four states Normal, InString, InLineComment, InBlockComment gives
\* (whichever way that pass takes an escape before a line break).
C8_TwoPassEqualsSinglePass ==
  pc = "sub" =>
    \/ json_str = SinglePass(ArgLines, 1, FALSE, FALSE, TRUE, FALSE)
    \/ json_str = SinglePass(ArgLines, 1, FALSE, FALSE, TRUE, TRUE)

\* What C9 asks of a step of the line scan. The backslash is not asked to stand
\* inside a string: the scan as section 4.1 gives it sets the flag on any one.
EscapeNextStep ==
  /\ (AtLineChar' /\ i' = 1) => ~escape_next'
  /\ (AtLineChar' /\ escape_next')
       => /\ i' > 1
          /\ CurLine'[i' - 1] = BACKSLASH
          /\ ~EscapedAt(CurLine', i' - 1)
  /\ (pc = "line" /\ pc' = "line" /\ ln' = ln + 1) => in_string' = in_string

\* C9: in the line scan escape_next is false when the scan of a line starts,
\* and is true only for the character that follows an unescaped backslash;
\* in_string is carried from one line to the next.
C9_EscapeNextDiscipline == [][EscapeNextStep]_vars

-----------------------------------------------------------------------------
(* Properties of normalizing (SpecNorm) *)

RECURSIVE StringBodies(_, _, _, _, _)
\* What stands between the quotes of each string literal of s from p on, the
\* literals being those outside comments (ins: inside one that began at from)
StringBodies(s, p, ins, esc, from) ==
  IF p > Len(s) THEN {}
  ELSE IF esc THEN StringBodies(s, p + 1, ins, FALSE, from)
  ELSE IF s[p] = BACKSLASH THEN StringBodies(s, p + 1, ins, TRUE, from)
  ELSE IF s[p] = QUOTE
       THEN IF ins
            THEN {SubSeq(s, from, p - 1)} \cup StringBodies(s, p + 1, FALSE, FALSE, 0)
            ELSE StringBodies(s, p + 1, TRUE, FALSE, p + 1)
  ELSE IF ~ins /\ s[p] = "/" /\ p + 1 <= Len(s) /\ s[p + 1] = "*"
       THEN StringBodies(s, CloseAfter(s, p + 2), FALSE, FALSE, 0)
  ELSE IF ~ins /\ s[p] = "/" /\ p + 1 <= Len(s) /\ s[p + 1] = "/"
       THEN StringBodies(s, LineEndFrom(s, p), FALSE, FALSE, 0)
  ELSE StringBodies(s, p + 1, ins, FALSE, from)

\* the text holds //, /* or */
HasMarker(s) ==
  \E p \in 1..(Len(s) - 1) :
    <<s[p], s[p + 1]>> \in {<<"/", "/">>, <<"/", "*">>, <<"*", "/">>}

\* the text holds a comma followed by whitespace and } or ], which section 9
\* documents the substitution to change inside a string too
HasTrailingComma(s) == \E p \in 1..Len(s) : CommaMatchAt(s, p)

\* the string value a literal with this body stands for
BodyValue(body) == ScanString(Append(body, QUOTE), 1, <<>>)

RECURSIVE StringsOf(_)
\* every string of a JSON value, keys included
StringsOf(value) ==
  CASE value.t = "str" -> {value.v}
    [] value.t = "num" -> {}
    [] value.t = "arr" -> UNION {StringsOf(value.v[k]) : k \in 1..Len(value.v)}
    [] value.t = "obj" ->
         UNION {{value.v[k][1]} \cup StringsOf(value.v[k][2]) : k \in 1..Len(value.v)}

\* the text is JSON with comments and trailing commas: what is left of it with
\* the comments outside its string literals removed parses
IsCommentedJson(x) ==
  json_loads(RemoveTrailingCommas(
    SinglePass(SelectSeq(StripBom(x), IsKept), 1, FALSE, FALSE, TRUE, FALSE))).ok

\* C1: when a text is accepted, every string literal of it that holds //, /* or
\* */ is a string of the parsed value, unchanged, whatever comments stand
\* outside the literals. Only texts that are JSON with comments are asked
\* about, and literals the documented limitation of section 9 touches (a
\* comma before whitespace and a closing bracket) are left out.
C1_StringContentSafe ==
  (n_pc # "first" /\ n_first.ok /\ IsCommentedJson(n_input)) =>
    \A body \in StringBodies(n_input, 1, FALSE, FALSE, 0) :
      (HasMarker(body) /\ ~HasTrailingComma(body) /\ BodyValue(body).ok)
        => BodyValue(body).v.v \in StringsOf(n_first.v)

\* C2: normalizing the text a normalization emitted succeeds and gives the
\* same value and the same text again.
C2_Idempotent ==
  n_pc = "done" =>
    /\ n_second.ok
    /\ n_second.v = n_first.v
    /\ n_second.out = n_first.out

-----------------------------------------------------------------------------
(* Properties of main and process_json_file (Spec) *)

\* the normalizer rejects what is read from a file of this content
Rejected(text) == ~clean_json_content(StripBom(text)).ok

\* C5: a file whose content the normalizer rejects keeps that content through
\* the whole run, and a file is open for writing only once its content parsed.
C5_NoWriteOnFailure ==
  /\ \A k \in 1..Len(files) : Rejected(orig_files[k]) => files[k] = orig_files[k]
  /\ m_pc \in {"open", "dump"} => clean_json_content(content).ok

\* C5's case: the run is over, it rejected a file and rewrote another
C5_Witness ==
  /\ m_pc = "done"
  /\ \E k \in 1..Len(files) : Rejected(orig_files[k])
  /\ \E k \in 1..Len(files) : ~Rejected(orig_files[k]) /\ files[k] # orig_files[k]

\* C10: the count of successes main reports is the number of files that were
\* parsed and rewritten.
C10_SuccessCount ==
  m_pc = "done" => successful_files = rewritten

====
